---- MODULE Spec2Model ----
(***************************************************************************)
(* The estimating pipeline of Main.py, refine.py and populate_calculator.py *)
(* as a state machine over the output workbook:                            *)
(*   process_csv_to_excel  (Normalizer)   CSV frame -> 'raw input'         *)
(*   refine_values         (Aggregator)   'raw input' -> 'Refined values'  *)
(*   populate_piping       (Mapper)       'Refined values' -> breakdown    *)
(*   populate_ductwork     (Mapper)       'Refined values' -> breakdown    *)
(*                                                                         *)
(* Text is a sequence of one-character strings, so that substring search,  *)
(* case folding, trimming and the size regex are computed, not assumed.    *)
(* A cell value is a record [t, n, s]: t is the Python type of the value   *)
(* ("none", "nan", "num", "str"), n the number, s the text.                *)
(***************************************************************************)
EXTENDS Integers, Sequences, FiniteSets, TLC

----------------------------------------------------------------------------
(* Characters: printable ASCII in code-point order, as str compares them  *)
(* (code 96, which no TLA+ string can hold, is spelled GRAVE).             *)
Ascii ==
    << " ", "!", "\"", "#", "$", "%", "&", "'", "(", ")", "*", "+", ",", "-", ".", "/", "0", "1",
       "2", "3", "4", "5", "6", "7", "8", "9", ":", ";", "<", "=", ">", "?", "@", "A", "B", "C",
       "D", "E", "F", "G", "H", "I", "J", "K", "L", "M", "N", "O", "P", "Q", "R", "S", "T", "U",
       "V", "W", "X", "Y", "Z", "[", "\\", "]", "^", "_", "GRAVE", "a", "b", "c", "d", "e", "f", "g",
       "h", "i", "j", "k", "l", "m", "n", "o", "p", "q", "r", "s", "t", "u", "v", "w", "x", "y",
       "z", "{", "|", "}", "~" >>

CodeOf == [c \in {Ascii[i] : i \in 1..Len(Ascii)} |-> 31 + CHOOSE i \in 1..Len(Ascii) : Ascii[i] = c]

IsDigit(c) == CodeOf[c] \in 48..57

DigitVal(c) == CodeOf[c] - 48

\* str.lower() and str.upper(), one character
LowerChar(c) == IF CodeOf[c] \in 65..90 THEN Ascii[CodeOf[c] + 32 - 31] ELSE c

UpperChar(c) == IF CodeOf[c] \in 97..122 THEN Ascii[CodeOf[c] - 32 - 31] ELSE c

Lower(s) == [i \in 1..Len(s) |-> LowerChar(s[i])]

Upper(s) == [i \in 1..Len(s) |-> UpperChar(s[i])]

\* str.strip(): leading and trailing blanks removed
RECURSIVE FirstKept(_, _)
FirstKept(s, i) == IF i > Len(s) THEN i ELSE IF s[i] # " " THEN i ELSE FirstKept(s, i + 1)

RECURSIVE LastKept(_, _)
LastKept(s, i) == IF i < 1 THEN i ELSE IF s[i] # " " THEN i ELSE LastKept(s, i - 1)

Strip(s) == SubSeq(s, FirstKept(s, 1), LastKept(s, Len(s)))

\* `sub in s` of Python: sub occurs in s as a contiguous run
Contains(sub, s) ==
    \E i \in 0..(Len(s) - Len(sub)) : \A j \in 1..Len(sub) : s[i + j] = sub[j]

\* `a < b` of Python on str: lexicographic by code point
RECURSIVE StrLess(_, _)
StrLess(a, b) ==
    IF b = <<>> THEN FALSE
    ELSE IF a = <<>> THEN TRUE
    ELSE IF a[1] # b[1] THEN CodeOf[a[1]] < CodeOf[b[1]]
    ELSE StrLess(Tail(a), Tail(b))

----------------------------------------------------------------------------
(* Cell values *)
None == [t |-> "none", n |-> 0, s |-> <<>>]

NaN == [t |-> "nan", n |-> 0, s |-> <<>>]

Num(k) == [t |-> "num", n |-> k, s |-> <<>>]

Str(x) == [t |-> "str", n |-> 0, s |-> x]

\* isinstance(v, str)
IsStr(v) == v.t = "str"

\* isinstance(v, (int, float))
IsNumber(v) == v.t = "num"

----------------------------------------------------------------------------
(* The size regex of populate_piping:                                      *)
(*   re.search(r'(\d+-\d+/\d+|\d+/\d+|\d+-\d+|\d+)', name)                 *)
(* re.search takes the leftmost position where some alternative matches    *)
(* and, there, the first alternative that matches; \d+ is greedy, and       *)
(* giving digits back never helps, the next pattern character being no     *)
(* digit.                                                                  *)

CharAt(s, i) == IF i \in 1..Len(s) THEN s[i] ELSE ""

\* length of the run of digits of s that starts at position i (0: none)
RECURSIVE DigitRun(_, _)
DigitRun(s, i) ==
    IF i > Len(s) THEN 0
    ELSE IF ~IsDigit(s[i]) THEN 0
    ELSE 1 + DigitRun(s, i + 1)

\* the alternatives after a first run of d1 digits: sep1 is the character
\* that follows it, d2 the run of digits that starts at j, right after sep1
MatchTail(s, j, d1, sep1, d2) ==
    IF sep1 = "-" /\ d2 > 0 /\ CharAt(s, j + d2) = "/" /\ DigitRun(s, j + d2 + 1) > 0
    THEN d1 + d2 + DigitRun(s, j + d2 + 1) + 2        \* \d+-\d+/\d+
    ELSE IF sep1 = "/" /\ d2 > 0 THEN d1 + d2 + 1      \* \d+/\d+
    ELSE IF sep1 = "-" /\ d2 > 0 THEN d1 + d2 + 1      \* \d+-\d+
    ELSE d1                                            \* \d+

MatchFrom(s, i, d1) ==
    IF d1 = 0 THEN 0
    ELSE MatchTail(s, i + d1 + 1, d1, CharAt(s, i + d1), DigitRun(s, i + d1 + 1))

\* length of the match of the pattern anchored at position i (0: no match)
MatchAt(s, i) == MatchFrom(s, i, DigitRun(s, i))

NoMatch == [found |-> FALSE, text |-> <<>>]

MatchText(s, i) == [found |-> TRUE, text |-> SubSeq(s, i, i + MatchAt(s, i) - 1)]

FirstOf(s, hits) == IF hits = {} THEN NoMatch ELSE MatchText(s, CHOOSE h \in hits : \A k \in hits : h <= k)

\* re.search(...): [found, text], text being match.group(0)
ReSearch(s) == FirstOf(s, {i \in 1..Len(s) : MatchAt(s, i) > 0})

\* size = size + '"' if '"' not in size else size
WithQuote(size) ==
    IF \A i \in 1..Len(size) : size[i] # "\"" THEN size \o <<"\"">> ELSE size

Quoted(m) == IF m.found THEN [found |-> TRUE, text |-> WithQuote(Strip(m.text))] ELSE NoMatch

\* the size token of a record name: the match, stripped, with '"' appended
\* when it holds none
SizeToken(name) == Quoted(ReSearch(name))

----------------------------------------------------------------------------
(* Numeric coercion of refine_values:                                      *)
(*   pd.to_numeric(col.astype(str).str.replace(',', ''),                   *)
(*                 errors='coerce').fillna(0)                              *)
(* Numbers of the model are naturals; a text parses when, commas removed,  *)
(* it is a non-empty run of digits (signs, decimal points and exponents    *)
(* occur in no value of the model).                                        *)

\* str(n) of a natural
RECURSIVE DecimalText(_)
DecimalText(n) ==
    IF n < 10 THEN <<Ascii[n + 48 - 31]>>
    ELSE Append(DecimalText(n \div 10), Ascii[(n % 10) + 48 - 31])

TextNone == <<"N", "o", "n", "e">>

\* astype(str), one value
AsText(v) ==
    IF v.t = "num" THEN DecimalText(v.n)
    ELSE IF v.t = "str" THEN v.s
    ELSE TextNone

\* str.replace(',', '')
RECURSIVE DropCommas(_)
DropCommas(s) ==
    IF s = <<>> THEN <<>>
    ELSE IF Head(s) = "," THEN DropCommas(Tail(s))
    ELSE <<Head(s)>> \o DropCommas(Tail(s))

RECURSIVE DigitsValue(_)
DigitsValue(s) ==
    IF s = <<>> THEN 0
    ELSE 10 * DigitsValue(SubSeq(s, 1, Len(s) - 1)) + DigitVal(s[Len(s)])

\* the whole coercion of one value: unparseable or absent counts as 0
ToNumeric(v) ==
    LET txt == DropCommas(AsText(v))
    IN  IF txt # <<>> /\ \A i \in 1..Len(txt) : IsDigit(txt[i])
        THEN DigitsValue(txt)
        ELSE 0

----------------------------------------------------------------------------
(* Texts of the source: sheet titles are plain strings (only compared),    *)
(* cell texts are character sequences.                                     *)

RawTitle == "raw input"

RefinedTitle == "Refined values"

BreakdownTitle == "Mechanical Breakdown"

TxName == <<"N", "a", "m", "e">>

TxQty == <<"Q", "t", "y">>

TxUnits == <<"U", "n", "i", "t", "s">>

TxSquareFeet == <<"S", "q", "u", "a", "r", "e", " ", "f", "e", "e", "t">>

TxFloor == <<"F", "l", "o", "o", "r">>

TxManufacturer == <<"M", "a", "n", "u", "f", "a", "c", "t", "u", "r", "e", "r">>

TxLabor == <<"L", "a", "b", "o", "r">>

TxEquipmentTotal == <<"E", "q", "u", "i", "p", "m", "e", "n", "t", " ", "T", "o", "t", "a", "l">>

TxCounts == <<"C", "o", "u", "n", "t", "s">>

TxTotalQty == <<"T", "o", "t", "a", "l", " ", "Q", "t", "y">>

TxTotalSquareFeet ==
    << "T", "o", "t", "a", "l", " ", "S", "q", "u", "a", "r", "e", " ", "f", "e", "e", "t" >>

\* header of the 'raw input' sheet, as process_csv_to_excel writes it
header == <<Str(TxName), Str(TxQty), Str(TxUnits), Str(TxSquareFeet), Str(TxFloor),
            Str(TxManufacturer), Str(TxLabor), Str(TxEquipmentTotal), Str(TxCounts)>>

\* header of the 'Refined values' sheet, as refine_values writes it
refined_header == <<Str(TxName), Str(TxUnits), Str(TxTotalQty), Str(TxTotalSquareFeet)>>

\* the columns refine_values requires
required_columns == <<TxName, TxQty, TxUnits, TxSquareFeet>>

TxInputArea == <<"I", "N", "P", "U", "T", " ", "A", "R", "E", "A">>

TxRefrigerant == <<"r", "e", "f", "r", "i", "g", "e", "r", "a", "n", "t">>

TxInputRefrigerantPiping ==
    << "I", "n", "p", "u", "t", " ", "R", "e", "f", "r", "i", "g", "e", "r", "a", "n", "t", " ",
       "P", "i", "p", "i", "n", "g" >>

TxCondensateDrain ==
    << "c", "o", "n", "d", "e", "n", "s", "a", "t", "e", " ", "d", "r", "a", "i", "n" >>

TxCopper ==
    << "e", "q", "u", "i", "p", "m", "e", "n", "t", " ", "r", "i", "s", "e", "r", " ", "&", " ",
       "b", "r", "a", "n", "c", "h", " ", "p", "i", "p", "i", "n", "g" >>

TxSch40 == <<"s", "c", "h", " ", "4", "0", " ", "b", "l", "k", " ", "i", "r", "o", "n">>

TxDash == <<"-">>

CatGalvanizedSteel ==
    << "G", "a", "l", "v", "a", "n", "i", "z", "e", "d", " ", "S", "t", "e", "e", "l" >>

LblGalvanizedSteel ==
    << "I", "n", "p", "u", "t", " ", "G", "a", "l", "v", "a", "n", "i", "z", "e", "d", " ", "S",
       "t", "e", "e", "l" >>

CatResidentialKitchen ==
    << "R", "e", "s", "i", "d", "e", "n", "t", "i", "a", "l", " ", "K", "i", "t", "c", "h", "e",
       "n" >>

LblResidentialKitchen ==
    << "I", "n", "p", "u", "t", " ", "R", "e", "s", "i", "d", "e", "n", "t", "i", "a", "l", " ",
       "K", "i", "t", "c", "h", "e", "n" >>

CatCommercialKitchen ==
    << "C", "o", "m", "m", "e", "r", "c", "i", "a", "l", " ", "K", "i", "t", "c", "h", "e", "n" >>

LblCommercialKitchen ==
    << "I", "n", "p", "u", "t", " ", "C", "o", "m", "m", "e", "r", "c", "i", "a", "l", " ", "K",
       "i", "t", "c", "h", "e", "n" >>

CatAluminum == <<"A", "l", "u", "m", "i", "n", "u", "m">>

LblAluminum == <<"I", "n", "p", "u", "t", " ", "A", "l", "u", "m", "i", "n", "u", "m">>

CatFlatOval == <<"F", "l", "a", "t", " ", "O", "v", "a", "l">>

LblFlatOval == <<" ", "I", "n", "p", "u", "t", " ", "F", "l", "a", "t", " ", "O", "v", "a", "l">>

CatStainless ==
    << "3", "1", "6", " ", "S", "S", " ", "1", "8", " ", "G", "a", "u", "g", "e", " ", "D", "X" >>

LblStainless ==
    << " ", "(", "U", "s", "u", "a", "l", "l", "y", " ", "I", "g", "n", "o", "r", "e", ")", " ",
       "S", "t", "a", "i", "n", "l", "e", "s", "s", " ", "S", "t", "e", "e", "l" >>

\* base_categories of populate_ductwork, in dict order: <<category, label>>
base_categories ==
    << <<CatGalvanizedSteel, LblGalvanizedSteel>>,
       <<CatResidentialKitchen, LblResidentialKitchen>>,
       <<CatCommercialKitchen, LblCommercialKitchen>>,
       <<CatAluminum, LblAluminum>>,
       <<CatFlatOval, LblFlatOval>>,
       <<CatStainless, LblStainless>> >>

PreAcousticallyLined ==
    << "A", "c", "o", "u", "s", "t", "i", "c", "a", "l", "l", "y", " ", "L", "i", "n", "e", "d",
       " " >>

PreInsulated == <<"I", "n", "s", "u", "l", "a", "t", "e", "d", " ">>

PreFireWrapped == <<"F", "i", "r", "e", " ", "W", "r", "a", "p", "p", "e", "d", " ">>

LblAcousticalLining ==
    << "I", "n", "p", "u", "t", " ", "A", "c", "o", "u", "s", "t", "i", "c", "a", "l", " ", "L",
       "i", "n", "i", "n", "g", " ", "(", "S", "q", "F", "t", ")" >>

LblInsulation ==
    << "I", "n", "p", "u", "t", " ", "I", "n", "s", "u", "l", "a", "t", "i", "o", "n", " ", "(",
       "S", "q", "F", "t", ")" >>

LblFireWrapped ==
    << "I", "n", "p", "u", "t", " ", "F", "i", "r", "e", " ", "W", "r", "a", "p", "p", "e", "d",
       " ", "(", "S", "q", "F", "t", ")" >>

\* sq_categories of populate_ductwork, in dict order: <<combo, label>>
sq_categories ==
    << <<PreAcousticallyLined \o CatGalvanizedSteel, LblAcousticalLining>>,
       <<PreInsulated \o CatGalvanizedSteel, LblInsulation>>,
       <<PreFireWrapped \o CatGalvanizedSteel, LblFireWrapped>>,
       <<PreAcousticallyLined \o CatResidentialKitchen, LblAcousticalLining>>,
       <<PreInsulated \o CatResidentialKitchen, LblInsulation>>,
       <<PreFireWrapped \o CatResidentialKitchen, LblFireWrapped>>,
       <<PreAcousticallyLined \o CatCommercialKitchen, LblAcousticalLining>>,
       <<PreInsulated \o CatCommercialKitchen, LblInsulation>>,
       <<PreFireWrapped \o CatCommercialKitchen, LblFireWrapped>>,
       <<PreAcousticallyLined \o CatAluminum, LblAcousticalLining>>,
       <<PreInsulated \o CatAluminum, LblInsulation>>,
       <<PreFireWrapped \o CatAluminum, LblFireWrapped>>,
       <<PreAcousticallyLined \o CatFlatOval, LblAcousticalLining>>,
       <<PreInsulated \o CatFlatOval, LblInsulation>>,
       <<PreFireWrapped \o CatFlatOval, LblFireWrapped>>,
       <<PreAcousticallyLined \o CatStainless, LblAcousticalLining>>,
       <<PreInsulated \o CatStainless, LblInsulation>>,
       <<PreFireWrapped \o CatStainless, LblFireWrapped>> >>

----------------------------------------------------------------------------
(* The output workbook, the template and the locals kept for the claims.   *)

VARIABLES
    sheetnames,   \* workbook.sheetnames of the output file, in order
    rawSheet,     \* rows of 'raw input' (header first); <<>> when there is none
    refSheet,     \* rows of 'Refined values' (header first); <<>> when there is none
    brk,          \* rows of cells of 'Mechanical Breakdown'
    template,     \* the template file: [sheetnames, rawSheet, refSheet, brk]
    csvIn,        \* the frame read_csv gave the last process_csv_to_excel
    data,         \* its local `data` after the pad/truncate step
    tokens,       \* populate_piping's last run: <<name, SizeToken(name)>> per size-keyed record
    lastOp,       \* the operation that ran last, with "_err" when it aborted
    ductBase,     \* brk when the refined table last changed
    ductRuns,     \* completed populate_ductwork runs since then
    refineRuns    \* completed refine_values runs in a row, ending with the last operation

vars == <<sheetnames, rawSheet, refSheet, brk, template, csvIn, data, tokens,
          lastOp, ductBase, ductRuns, refineRuns>>

doc == <<sheetnames, rawSheet, refSheet, brk>>

----------------------------------------------------------------------------
(* Sheets and cells (openpyxl) *)

Min(a, b) == IF a <= b THEN a ELSE b

SetMax(S) == CHOOSE x \in S : \A y \in S : y <= x

SetMin(S) == CHOOSE x \in S : \A y \in S : x <= y

\* A sheet's cells are kept as its rows, each max_column values long.
\* sheet.max_row and sheet.max_column
MaxRow(g) == IF g = <<>> THEN 1 ELSE Len(g)

MaxColumn(g) == IF g = <<>> THEN 1 ELSE Len(g[1])

\* sheet.cell(row, column).value: a cell never written is empty
Cell(g, r, c) == IF r \in 1..Len(g) /\ c \in 1..Len(g[r]) THEN g[r][c] ELSE None

\* the sheet grown to nr rows and nc columns of cells
Extended(g, nr, nc) == [r \in 1..nr |-> [c \in 1..nc |-> Cell(g, r, c)]]

\* sheet.cell(row, column).value = v: the cell is created when it was not there
SetCell(g, r, c, v) ==
    IF r <= Len(g) /\ c <= Len(g[r]) THEN [g EXCEPT ![r][c] = v]
    ELSE [Extended(g, IF r > Len(g) THEN r ELSE Len(g),
                      IF c > MaxColumn(g) THEN c ELSE MaxColumn(g)) EXCEPT ![r][c] = v]

\* what workbook.save and load_workbook make of a value: an empty string is
\* written as an empty cell and read back as None
Saved(v) == IF v.t = "str" /\ v.s = <<>> THEN None ELSE v

SavedRows(rows) == [i \in 1..Len(rows) |-> [j \in 1..Len(rows[i]) |-> Saved(rows[i][j])]]

\* Python truth value of a cell value (`not value` is its negation)
Truthy(v) ==
    \/ v.t = "nan"
    \/ v.t = "num" /\ v.n # 0
    \/ v.t = "str" /\ v.s # <<>>

SeqToSet(q) == {q[i] : i \in 1..Len(q)}

\* workbook.remove(workbook[title]) / del workbook[title]
RemoveTitle(names, title) == SelectSeq(names, LAMBDA n : n # title)

\* the title create_sheet gives: a taken title gets a number appended
UniqueTitle(names, title) ==
    IF title \notin SeqToSet(names) THEN title
    ELSE IF (title \o "1") \notin SeqToSet(names) THEN title \o "1"
    ELSE title \o "2"

\* list.insert(index, x), index counted from 0
InsertAt(names, index, x) ==
    LET k == Min(index, Len(names))
    IN  SubSeq(names, 1, k) \o <<x>> \o SubSeq(names, k + 1, Len(names))

----------------------------------------------------------------------------
(* process_csv_to_excel (Main.py) *)

\* the width of the canonical table
RawWidth == 9

\* pd.isna(v)
IsNA(v) == v.t \in {"none", "nan"}

\* a pad step with '-' for every missing value: C7 fails under it
PadValueDash(i, val) ==
    IF ~IsNA(val) /\ ~(val.t = "str" /\ val.s = <<>>) THEN val ELSE Str(TxDash)

\* one value of the pad/truncate lambda; i is the position, counted from 0
PadValue(i, val) ==
    IF ~IsNA(val) /\ ~(val.t = "str" /\ val.s = <<>>) THEN val
    ELSE IF i \in {1, 3, 6, 7, 8} THEN Num(0)
    ELSE Str(TxDash)

\* the pad/truncate lambda on one frame row x:
\*   [... for i, val in enumerate(x[:9])] + [""] * (9 - len(x))
PadRow(x) ==
    [i \in 1..Min(Len(x), RawWidth) |-> PadValue(i - 1, x[i])]
        \o [i \in 1..(RawWidth - Len(x)) |-> Str(<<>>)]

\* the loop that deletes the rows whose column A is falsy; rows[1] is the header
RECURSIVE DeleteLoop(_, _)
DeleteLoop(rows, row_num) ==
    IF row_num > Len(rows) THEN rows
    ELSE IF ~Truthy(rows[row_num][1])
         THEN DeleteLoop(SubSeq(rows, 1, row_num - 1) \o SubSeq(rows, row_num + 1, Len(rows)),
                         row_num)
         ELSE DeleteLoop(rows, row_num + 1)

\* text a numeric column of read_csv is made of (a run of digits: signs,
\* decimal points and exponents occur in no file of the model)
IsNumericText(t) == t # <<>> /\ \A i \in 1..Len(t) : IsDigit(t[i])

\* a line read_csv drops as empty: no field, or one field of blanks only
IsBlankLine(l) == l = <<>> \/ (Len(l) = 1 /\ Strip(l[1]) = <<>>)

\* pd.read_csv(data_file, header=None, on_bad_lines="skip", engine="python")
\* of a file given as its lines, each the sequence of its fields: blank lines
\* are skipped, the first line sets the width, a longer line is a bad line and
\* is skipped, a shorter one is filled with NaN, an empty field is NaN, and a
\* column is numeric when every field it holds is. No line left: <<>>, for
\* the EmptyDataError read_csv raises.
ReadCsv(lines) ==
    LET nonblank == SelectSeq(lines, LAMBDA l : ~IsBlankLine(l))
        width == Len(nonblank[1])
        kept == SelectSeq(nonblank, LAMBDA l : Len(l) <= width)
        Missing(i, j) == j > Len(kept[i]) \/ kept[i][j] = <<>>
        Numeric(j) == \A i \in 1..Len(kept) : Missing(i, j) \/ IsNumericText(kept[i][j])
    IN  IF nonblank = <<>> THEN <<>>
        ELSE [i \in 1..Len(kept) |->
                 [j \in 1..width |->
                     IF Missing(i, j) THEN NaN
                     ELSE IF Numeric(j) THEN Num(DigitsValue(kept[i][j]))
                     ELSE Str(kept[i][j])]]

\* process_csv_to_excel on the file `lines`. When read_csv raises, the copy of
\* the template is all the output file holds.
ProcessCsv(lines) ==
    LET frame == ReadCsv(lines)
    IN  /\ csvIn' = lines
        /\ tokens' = <<>>
        /\ ductRuns' = 0
        /\ refineRuns' = 0
        /\ ductBase' = template.brk
        /\ brk' = template.brk
        /\ refSheet' = template.refSheet
        /\ UNCHANGED template
        /\ IF frame = <<>>
           THEN /\ data' = <<>>
                /\ sheetnames' = template.sheetnames
                /\ rawSheet' = template.rawSheet
                /\ lastOp' = "process_err"
           ELSE /\ data' = [i \in 1..Len(frame) |-> PadRow(frame[i])]
                /\ sheetnames' =
                       LET kept == IF RawTitle \in SeqToSet(template.sheetnames)
                                   THEN RemoveTitle(template.sheetnames, RawTitle)
                                   ELSE template.sheetnames
                       IN  Append(kept, UniqueTitle(kept, RawTitle))
                /\ rawSheet' = SavedRows(DeleteLoop(<<header>> \o data', 2))
                /\ lastOp' = "process"

----------------------------------------------------------------------------
(* refine_values (refine.py) *)

\* the frame rows after `raw_input_df[1:].dropna(how='all')`
BodyRows(rows) == SelectSeq(Tail(rows), LAMBDA r : \E j \in 1..Len(r) : ~IsNA(r[j]))

HasColumn(columns, name) == \E j \in 1..Len(columns) : columns[j] = Str(name)

ColumnOf(columns, name) ==
    SetMin({j \in 1..Len(columns) : columns[j] = Str(name)})

\* order of the group keys: groupby sorts them (sort=True)
CellLess(a, b) ==
    IF a.t = "str" /\ b.t = "str" THEN StrLess(a.s, b.s) ELSE a.n < b.n

KeyLess(a, b) == CellLess(a[1], b[1]) \/ (a[1] = b[1] /\ CellLess(a[2], b[2]))

RECURSIVE SortKeys(_)
SortKeys(S) ==
    IF S = {} THEN <<>>
    ELSE LET k == CHOOSE x \in S : \A y \in S \ {x} : KeyLess(x, y)
         IN  <<k>> \o SortKeys(S \ {k})

\* the groups of groupby(['Name', 'Units']): a row with a null key is in none
GroupKeys(body, cn, cu) ==
    {<<body[i][cn], body[i][cu]>> : i \in {j \in 1..Len(body) : ~IsNA(body[j][cn]) /\ ~IsNA(body[j][cu])}}

\* 'sum' of the coerced column col over the rows of group key
RECURSIVE GroupSum(_, _, _, _, _)
GroupSum(body, cn, cu, key, col) ==
    IF body = <<>> THEN 0
    ELSE (IF <<Head(body)[cn], Head(body)[cu]>> = key THEN ToNumeric(Head(body)[col]) ELSE 0)
         + GroupSum(Tail(body), cn, cu, key, col)

\* the rows refine_values writes from the rows of 'raw input'
RefinedRows(rows) ==
    LET columns == rows[1]
        body == BodyRows(rows)
        cn == ColumnOf(columns, TxName)
        cu == ColumnOf(columns, TxUnits)
        cq == ColumnOf(columns, TxQty)
        cs == ColumnOf(columns, TxSquareFeet)
        keys == SortKeys(GroupKeys(body, cn, cu))
    IN  <<refined_header>>
        \o [k \in 1..Len(keys) |->
               <<keys[k][1], keys[k][2],
                 Num(GroupSum(body, cn, cu, keys[k], cq)),
                 Num(GroupSum(body, cn, cu, keys[k], cs))>>]

\* the checks that raise before anything is written
RefineFails ==
    \/ RawTitle \notin SeqToSet(sheetnames)
    \/ rawSheet = <<>>
    \/ \E i \in 1..Len(required_columns) : ~HasColumn(rawSheet[1], required_columns[i])

\* a create_sheet without the delete before it: C8 fails under it
SheetsKeepingOld(names) == InsertAt(names, 1, UniqueTitle(names, RefinedTitle))

\* the sheet list after `del workbook['Refined values']` (when there is one)
\* and create_sheet('Refined values', index=1)
SheetsAfterRefine(names) ==
    LET kept == IF RefinedTitle \in SeqToSet(names) THEN RemoveTitle(names, RefinedTitle)
                ELSE names
    IN  InsertAt(kept, 1, UniqueTitle(kept, RefinedTitle))

\* the bound on refine_values runs in a row
MaxRefines == 2

\* a refine_values whose checks come after the old sheet is deleted and saved:
\* C10 fails under it
RefineDropsSheet ==
    /\ refineRuns < MaxRefines
    /\ UNCHANGED <<rawSheet, brk, template, csvIn, data, tokens, ductBase, ductRuns>>
    /\ IF RefineFails
       THEN /\ sheetnames' = RemoveTitle(sheetnames, RefinedTitle)
            /\ refSheet' = <<>>
            /\ refineRuns' = 0
            /\ lastOp' = "refine_err"
       ELSE /\ sheetnames' = SheetsAfterRefine(sheetnames)
            /\ refSheet' = RefinedRows(rawSheet)
            /\ refineRuns' = refineRuns + 1
            /\ lastOp' = "refine"

RefineValues ==
    /\ refineRuns < MaxRefines
    /\ UNCHANGED <<rawSheet, brk, template, csvIn, data, tokens>>
    /\ IF RefineFails
       THEN /\ UNCHANGED <<sheetnames, refSheet, ductBase, ductRuns>>
            /\ refineRuns' = 0
            /\ lastOp' = "refine_err"
       ELSE /\ sheetnames' = SheetsAfterRefine(sheetnames)
            /\ refSheet' = RefinedRows(rawSheet)
            /\ refineRuns' = refineRuns + 1
            /\ lastOp' = "refine"
            /\ IF refSheet' = refSheet
               THEN UNCHANGED <<ductBase, ductRuns>>
               ELSE ductBase' = brk /\ ductRuns' = 0

----------------------------------------------------------------------------
(* populate_piping and populate_ductwork (populate_calculator.py) *)

\* the first column, cells taken left to right, of row r whose cell is a text
\* that holds label (0: none); the inner `break` stops at it
LabelColumn(g, r, label, maxc) ==
    LET hits == {c \in 1..maxc : g[r][c].t = "str" /\ Contains(label, g[r][c].s)}
    IN  IF hits = {} THEN 0 ELSE SetMin(hits)

\* a refrigerant placement that adds v to a number in the cell: C4 fails under it
RECURSIVE AddRows(_, _, _, _, _, _)
AddRows(g, label, v, r, maxr, maxc) ==
    IF r > maxr THEN g
    ELSE LET c == LabelColumn(g, r, label, maxc)
         IN  IF c = 0 THEN AddRows(g, label, v, r + 1, maxr, maxc)
             ELSE IF Cell(g, r, c + 1).t = "num" /\ v.t = "num"
             THEN AddRows(SetCell(g, r, c + 1, Num(Cell(g, r, c + 1).n + v.n)),
                          label, v, r + 1, maxr, maxc)
             ELSE AddRows(SetCell(g, r, c + 1, v), label, v, r + 1, maxr, maxc)

\* the refrigerant placement: in every row with the label, the cell right of
\* its first occurrence is set to v
RECURSIVE OverwriteRows(_, _, _, _, _, _)
OverwriteRows(g, label, v, r, maxr, maxc) ==
    IF r > maxr THEN g
    ELSE LET c == LabelColumn(g, r, label, maxc)
         IN  IF c = 0 THEN OverwriteRows(g, label, v, r + 1, maxr, maxc)
             ELSE OverwriteRows(SetCell(g, r, c + 1, v), label, v, r + 1, maxr, maxc)

\* an existing_val that is always 0: C2 fails under it
NoExistingVal(v) == 0

\* existing_val of the ductwork placement: a value that is no number counts 0
ExistingVal(v) == IF IsNumber(v) THEN v.n ELSE 0

\* a ductwork placement that adds to the prior value only when new_value is 0,
\* and else sets the cell to new_value: C3 fails under it
RECURSIVE ReplaceRows(_, _, _, _, _, _)
ReplaceRows(g, label, new_value, r, maxr, maxc) ==
    IF r > maxr THEN g
    ELSE LET c == LabelColumn(g, r, label, maxc)
         IN  IF c = 0 THEN ReplaceRows(g, label, new_value, r + 1, maxr, maxc)
             ELSE IF new_value = 0
             THEN ReplaceRows(SetCell(g, r, c + 1, Num(ExistingVal(Cell(g, r, c + 1)))),
                              label, new_value, r + 1, maxr, maxc)
             ELSE ReplaceRows(SetCell(g, r, c + 1, Num(new_value)),
                              label, new_value, r + 1, maxr, maxc)

\* a ductwork placement that puts the total in the label's own cell: C12 fails
\* under it
RECURSIVE AccumulateInPlace(_, _, _, _, _, _)
AccumulateInPlace(g, label, new_value, r, maxr, maxc) ==
    IF r > maxr THEN g
    ELSE LET c == LabelColumn(g, r, label, maxc)
         IN  IF c = 0 THEN AccumulateInPlace(g, label, new_value, r + 1, maxr, maxc)
             ELSE AccumulateInPlace(SetCell(g, r, c, Num(ExistingVal(Cell(g, r, c)) + new_value)),
                                    label, new_value, r + 1, maxr, maxc)

\* the ductwork placement: in every row with the label, new_value is added to
\* the cell right of its first occurrence
RECURSIVE AccumulateRows(_, _, _, _, _, _)
AccumulateRows(g, label, new_value, r, maxr, maxc) ==
    IF r > maxr THEN g
    ELSE LET c == LabelColumn(g, r, label, maxc)
         IN  IF c = 0 THEN AccumulateRows(g, label, new_value, r + 1, maxr, maxc)
             ELSE AccumulateRows(SetCell(g, r, c + 1,
                                         Num(ExistingVal(Cell(g, r, c + 1)) + new_value)),
                                 label, new_value, r + 1, maxr, maxc)

\* cell.value.strip().upper() == "INPUT AREA"
IsMarker(v) == IsStr(v) /\ Upper(Strip(v.s)) = TxInputArea

\* input_area_column: the column of the first marker, rows top down and cells
\* left to right (0: None)
InputAreaColumn(g) ==
    LET rows == {r \in 1..MaxRow(g) : \E c \in 1..MaxColumn(g) : IsMarker(Cell(g, r, c))}
    IN  IF rows = {} THEN 0
        ELSE LET r == SetMin(rows)
             IN  SetMin({c \in 1..MaxColumn(g) : IsMarker(Cell(g, r, c))})

\* `marker in name.lower()` for a value of the Name column
NameHas(name, marker) == IsStr(name) /\ Contains(marker, Lower(name.s))

\* refrigerant_value: Total Qty of the first refined row naming refrigerant
\* (None: no such row)
RefrigerantValue(ref) ==
    LET hits == {i \in 2..Len(ref) : NameHas(ref[i][1], TxRefrigerant)}
    IN  IF hits = {} THEN None ELSE ref[SetMin(hits)][3]

\* a size_column in which the first row with a text stays: C11 fails under it
FirstSizeRow(g, iac, size) ==
    LET rows == {r \in 1..MaxRow(g) :
                    IsStr(Cell(g, r, iac)) /\ Strip(Cell(g, r, iac).s) = size}
    IN  IF rows = {} THEN 0 ELSE SetMin(rows)

\* size_column[size], the dict built over the marker's column: a later row
\* replaces an earlier one with the same stripped text (0: size not in it)
SizeRow(g, iac, size) ==
    LET rows == {r \in 1..MaxRow(g) :
                    IsStr(Cell(g, r, iac)) /\ Strip(Cell(g, r, iac).s) = size}
    IN  IF rows = {} THEN 0 ELSE SetMax(rows)

TokenRow(idx, iac, tok) == IF tok.found THEN SizeRow(idx, iac, tok.text) ELSE 0

\* the row a record of the category `marker` is written to (0: it is not of
\* the category, no size is found in its name, or the size is in no row)
SizeTarget(idx, iac, name, marker) ==
    IF NameHas(name, marker) THEN TokenRow(idx, iac, SizeToken(name.s)) ELSE 0

\* one size-keyed loop over the refined rows from row i on: idx is the sheet
\* size_column was built from
RECURSIVE SizePass(_, _, _, _, _, _, _)
SizePass(g, idx, iac, ref, i, marker, offset) ==
    IF i > Len(ref) THEN g
    ELSE IF SizeTarget(idx, iac, ref[i][1], marker) > 0
         THEN SizePass(SetCell(g, SizeTarget(idx, iac, ref[i][1], marker), iac + offset,
                               ref[i][3]),
                       idx, iac, ref, i + 1, marker, offset)
         ELSE SizePass(g, idx, iac, ref, i + 1, marker, offset)

\* the refrigerant step
PlaceRefrigerant(g, rv) ==
    IF rv = None THEN g
    ELSE OverwriteRows(g, TxInputRefrigerantPiping, rv, 1, MaxRow(g), MaxColumn(g))

\* the three size-keyed loops, g1 being the sheet after the refrigerant step
SizePasses(g1, iac, ref) ==
    SizePass(SizePass(SizePass(g1, g1, iac, ref, 2, TxCondensateDrain, 1),
                      g1, iac, ref, 2, TxCopper, 2),
             g1, iac, ref, 2, TxSch40, 3)

\* the breakdown sheet populate_piping saves
PipingResult(g, ref) ==
    SizePasses(PlaceRefrigerant(g, RefrigerantValue(ref)), InputAreaColumn(g), ref)

\* the size tokens the three loops extract, in refined order
SizeKeyed(name) ==
    NameHas(name, TxCondensateDrain) \/ NameHas(name, TxCopper) \/ NameHas(name, TxSch40)

PipingTokens(ref) ==
    LET body == SelectSeq(Tail(ref), LAMBDA r : SizeKeyed(r[1]))
    IN  [i \in 1..Len(body) |-> <<body[i][1].s, SizeToken(body[i][1].s)>>]

MapperSheetMissing ==
    \/ RefinedTitle \notin SeqToSet(sheetnames)
    \/ BreakdownTitle \notin SeqToSet(sheetnames)

\* a populate_piping that goes on without the marker: C9 fails under it
PipingFailsOnSheets == MapperSheetMissing

PipingFails == MapperSheetMissing \/ InputAreaColumn(brk) = 0

PopulatePiping ==
    /\ refineRuns' = 0
    /\ UNCHANGED <<sheetnames, rawSheet, refSheet, template, csvIn, data, ductBase, ductRuns>>
    /\ IF PipingFails
       THEN /\ UNCHANGED <<brk, tokens>>
            /\ lastOp' = "piping_err"
       ELSE /\ brk' = PipingResult(brk, refSheet)
            /\ tokens' = PipingTokens(refSheet)
            /\ lastOp' = "piping"

\* base_aggregator[cat] / sq_aggregator[combo]: the sum of column col over the
\* refined rows whose name holds cat, case folded, and whose value is a number
RECURSIVE Aggregate(_, _, _, _)
Aggregate(ref, i, cat, col) ==
    IF i > Len(ref) THEN 0
    ELSE (IF NameHas(ref[i][1], Lower(cat)) /\ IsNumber(ref[i][col]) THEN ref[i][col].n ELSE 0)
         + Aggregate(ref, i + 1, cat, col)

\* the placement loop over a category table, entry k on
RECURSIVE PlaceTotals(_, _, _, _, _)
PlaceTotals(g, ref, cats, k, col) ==
    IF k > Len(cats) THEN g
    ELSE PlaceTotals(AccumulateRows(g, cats[k][2], Aggregate(ref, 2, cats[k][1], col),
                                    1, MaxRow(g), MaxColumn(g)),
                     ref, cats, k + 1, col)

\* the breakdown sheet populate_ductwork saves
DuctworkResult(g, ref) ==
    PlaceTotals(PlaceTotals(g, ref, base_categories, 1, 3), ref, sq_categories, 1, 4)

\* the bound on accumulating runs over one refined table
MaxRuns == 2

PopulateDuctwork ==
    /\ ductRuns < MaxRuns
    /\ refineRuns' = 0
    /\ UNCHANGED <<sheetnames, rawSheet, refSheet, template, csvIn, data, tokens, ductBase>>
    /\ IF MapperSheetMissing
       THEN /\ UNCHANGED <<brk, ductRuns>>
            /\ lastOp' = "ductwork_err"
       ELSE /\ brk' = DuctworkResult(brk, refSheet)
            /\ ductRuns' = ductRuns + 1
            /\ lastOp' = "ductwork"

----------------------------------------------------------------------------
(* Inputs: the CSV files, the templates and the output files the runs      *)
(* start from.                                                             *)

NmThermostat == <<"T", "h", "e", "r", "m", "o", "s", "t", "a", "t">>

NmRefrigerantPiping ==
    << "R", "e", "f", "r", "i", "g", "e", "r", "a", "n", "t", " ", "P", "i", "p", "i", "n", "g" >>

NmGalv6x6 ==
    << "G", "a", "l", "v", "a", "n", "i", "z", "e", "d", " ", "S", "t", "e", "e", "l", " ", "6",
       "x", "6" >>

NmLinedGalv ==
    << "A", "c", "o", "u", "s", "t", "i", "c", "a", "l", "l", "y", " ", "L", "i", "n", "e", "d",
       " ", "G", "a", "l", "v", "a", "n", "i", "z", "e", "d", " ", "S", "t", "e", "e", "l" >>

NmLinedAluminum ==
    << "A", "c", "o", "u", "s", "t", "i", "c", "a", "l", "l", "y", " ", "L", "i", "n", "e", "d",
       " ", "A", "l", "u", "m", "i", "n", "u", "m" >>

NmCondensate112 ==
    << "C", "o", "n", "d", "e", "n", "s", "a", "t", "e", " ", "D", "r", "a", "i", "n", " ", "1",
       "-", "1", "/", "2", "\"" >>

NmCondensate34 ==
    << "C", "o", "n", "d", "e", "n", "s", "a", "t", "e", " ", "D", "r", "a", "i", "n", " ", "3",
       "/", "4" >>

NmSch40Iron2 ==
    << "S", "C", "H", " ", "4", "0", " ", "B", "l", "k", " ", "I", "r", "o", "n", " ", "2" >>

NmCopper34 ==
    << "E", "q", "u", "i", "p", "m", "e", "n", "t", " ", "R", "i", "s", "e", "r", " ", "&", " ",
       "B", "r", "a", "n", "c", "h", " ", "P", "i", "p", "i", "n", "g", " ", "3", "/", "4" >>

NmRefrigerantUpper ==
    << "R", "E", "F", "R", "I", "G", "E", "R", "A", "N", "T", " ", "l", "i", "n", "e", " ", "s",
       "e", "t" >>

TxLF == <<"L", "F">>

TxSF == <<"S", "F">>

TxOneThousand == <<"1", ",", "0", "0", "0">>

TxInputAreaPadded == <<" ", "I", "n", "p", "u", "t", " ", "A", "r", "e", "a", " ">>

TxInputAreas == <<"I", "N", "P", "U", "T", " ", "A", "R", "E", "A", "S">>

TxNotApplicable == <<"n", "/", "a">>

TxColon == <<":">>

Tok34 == <<"3", "/", "4", "\"">>

Tok112 == <<"1", "-", "1", "/", "2", "\"">>

Tok2 == <<"2", "\"">>

Tok40 == <<"4", "0", "\"">>

\* one line of a CSV file: the nine fields of a line item
Line(name, qty, units, sqft) ==
    <<name, qty, units, sqft, <<"1">>, TxDash, <<"0">>, <<"0">>, <<"0">>>>

\* The lines the files of the pipeline runs are made of. The first has two
\* fields and one has three; the others have all nine, the last with an empty
\* Name.
LinePool ==
    << <<NmThermostat, <<"2">>>>,
       Line(NmGalv6x6, <<"1", "0">>, TxLF, <<"0">>),
       Line(NmGalv6x6, <<"5">>, TxLF, TxOneThousand),
       Line(NmLinedGalv, <<"2">>, TxSF, <<"2", "0">>),
       Line(NmLinedAluminum, <<"1">>, TxSF, <<"3", "0">>),
       Line(NmRefrigerantPiping, <<"1", "2">>, TxLF, <<"0">>),
       <<NmRefrigerantUpper, <<"7">>, TxLF>>,
       Line(NmCondensate112, <<"6">>, TxLF, <<"0">>),
       Line(NmCondensate34, <<"8">>, TxLF, <<"0">>),
       Line(NmCopper34, <<"4">>, TxLF, <<"0">>),
       Line(NmSch40Iron2, <<"9">>, TxLF, <<"0">>),
       Line(<<>>, <<"5">>, TxLF, <<"0">>) >>

\* the most lines a file of the pipeline runs has
MaxCsvLines == 3

\* the files: the empty one, and up to MaxCsvLines lines in a row of the pool
CsvFiles ==
    {<<>>} \cup {SubSeq(LinePool, w[1], w[2]) :
                    w \in {v \in (1..Len(LinePool)) \X (1..Len(LinePool)) :
                              v[1] <= v[2] /\ v[2] - v[1] < MaxCsvLines}}

\* the extent of the breakdown sheet of the templates
BrkRows == 10

BrkCols == 5

\* a sheet of BrkRows x BrkCols cells holding the entries <<row, column, value>>
Grid(entries) ==
    [r \in 1..BrkRows |->
        [c \in 1..BrkCols |->
            IF \E e \in entries : e[1] = r /\ e[2] = c
            THEN (CHOOSE e \in entries : e[1] = r /\ e[2] = c)[3]
            ELSE None]]

\* The layout of the templates: the marker at (1,1) over three size rows, the
\* refrigerant label at (5,2), the ductwork labels in columns 2 and 4 of rows
\* 6 to 10, each with `prior` in the cell to its right. `suffix` follows every
\* label in its cell; `labels` are the ductwork labels the template has.
Layout(marker, sizes, prior, suffix, labels) ==
    LET slots == << <<6, 2, LblGalvanizedSteel>>, <<6, 4, LblAluminum>>,
                    <<7, 2, LblResidentialKitchen>>, <<7, 4, LblCommercialKitchen>>,
                    <<8, 2, LblFlatOval>>, <<8, 4, LblStainless>>,
                    <<9, 2, LblAcousticalLining>>, <<9, 4, LblInsulation>>,
                    <<10, 2, LblFireWrapped>> >>
        used == {k \in 1..Len(slots) : slots[k][3] \in labels}
    IN  Grid({<<1, 1, Str(marker)>>,
              <<2, 1, Str(sizes[1])>>, <<3, 1, Str(sizes[2])>>, <<4, 1, Str(sizes[3])>>,
              <<5, 2, Str(TxInputRefrigerantPiping \o suffix)>>, <<5, 3, prior>>}
             \cup {<<slots[k][1], slots[k][2], Str(slots[k][3] \o suffix)>> : k \in used}
             \cup {<<slots[k][1], slots[k][2] + 1, prior>> : k \in used})

AllLabels ==
    {LblGalvanizedSteel, LblAluminum, LblResidentialKitchen, LblCommercialKitchen,
     LblFlatOval, LblStainless, LblAcousticalLining, LblInsulation, LblFireWrapped}

\* a 'Refined values' sheet left by an earlier run
StaleRefined ==
    <<refined_header, <<Str(NmGalv6x6), Str(TxLF), Num(4), Num(7)>>,
                      <<Str(NmRefrigerantPiping), Str(TxLF), Num(3), Num(0)>>>>

Workbook(names, raw, ref, g) ==
    [sheetnames |-> names, rawSheet |-> raw, refSheet |-> ref, brk |-> g]

\* the plain template: the marker, empty targets, every label
PlainTemplate ==
    Workbook(<<BreakdownTitle>>, <<>>, <<>>,
             Layout(TxInputArea, <<Tok34, Tok112, Tok2>>, None, <<>>, AllLabels))

\* The templates: with and without the marker, with empty, numeric and text
\* targets, with labels alone in their cells or followed by a colon, with all
\* labels or some, and one that already holds a 'raw input' sheet.
Templates ==
    { PlainTemplate,
      Workbook(<<BreakdownTitle, RawTitle>>, <<header>>, <<>>,
               Layout(TxInputAreaPadded, <<Tok34, Tok40, Tok34>>, Num(100), TxColon, AllLabels)),
      Workbook(<<BreakdownTitle>>, <<>>, <<>>,
               Layout(TxInputArea, <<Tok112, Tok2 \o <<" ">>, Tok34>>, Str(TxNotApplicable), <<>>,
                      AllLabels \ {LblAluminum, LblInsulation})),
      Workbook(<<BreakdownTitle>>, <<>>, <<>>,
               Layout(TxInputAreas, <<Tok34, Tok112, Tok40>>, Num(100), <<>>,
                      AllLabels \ {LblFlatOval})) }

\* a 'raw input' sheet written by hand, its header lacking required column k
HandmadeRaw(k) ==
    << [j \in 1..RawWidth |-> IF header[j] = Str(required_columns[k]) THEN None ELSE header[j]],
       <<Str(NmGalv6x6), Num(10), Str(TxLF), Num(0), Num(1), Str(TxDash), Num(0), Num(0), Num(0)>> >>

\* The output files a run may find: the template as copied, or a workbook
\* someone edited: with a handmade 'raw input', with a 'Refined values' of an
\* earlier run.
OutputFiles(t) ==
    {t}
    \cup {Workbook(Append(RemoveTitle(t.sheetnames, RawTitle), RefinedTitle), <<>>, StaleRefined, t.brk)}
    \cup {Workbook(RemoveTitle(t.sheetnames, RawTitle) \o <<RawTitle, RefinedTitle>>,
                   HandmadeRaw(k), StaleRefined, t.brk) : k \in 1..Len(required_columns)}
    \cup {Workbook(Append(RemoveTitle(t.sheetnames, RawTitle), RawTitle),
                   HandmadeRaw(k), <<>>, t.brk) : k \in {3}}

----------------------------------------------------------------------------
(* The pipeline: each operation is an entry point of its own and may run   *)
(* at any time on the output file.                                         *)

Init ==
    /\ template \in Templates
    /\ \E o \in OutputFiles(template) :
          /\ sheetnames = o.sheetnames
          /\ rawSheet = o.rawSheet
          /\ refSheet = o.refSheet
          /\ brk = o.brk
    /\ csvIn = <<>>
    /\ data = <<>>
    /\ tokens = <<>>
    /\ lastOp = "init"
    /\ ductBase = brk
    /\ ductRuns = 0
    /\ refineRuns = 0

\* process_csv_to_excel overwrites the output file with the template and reads
\* nothing else of it, so the state it leaves is the same after any history:
\* the runs take it as their first step only.
Next ==
    \/ lastOp = "init" /\ \E lines \in CsvFiles : ProcessCsv(lines)
    \/ RefineValues
    \/ PopulatePiping
    \/ PopulateDuctwork

Spec == Init /\ [][Next]_vars

----------------------------------------------------------------------------
(* populate_piping over record names of many shapes: the document holds a  *)
(* 'Refined values' sheet of one record.                                   *)

\* the longest size text after the category words of a generated name
MaxSizeLen == 3

SizeChars == {"2", "4", "-", "/", "\""}

RECURSIVE TextsUpTo(_, _)
TextsUpTo(chars, n) ==
    IF n = 0 THEN {<<>>}
    ELSE LET shorter == TextsUpTo(chars, n - 1)
         IN  shorter \cup {t \o <<c>> : t \in shorter, c \in chars}

\* the category words of the three size-keyed loops, as the names spell them
SizePrefixes ==
    {SubSeq(NmCondensate34, 1, 17), SubSeq(NmSch40Iron2, 1, 16), SubSeq(NmCopper34, 1, 32)}

SizeNames ==
    {p \o t : p \in SizePrefixes, t \in TextsUpTo(SizeChars, MaxSizeLen)}
        \cup {NmCondensate112, NmCondensate34, NmSch40Iron2, NmCopper34}

InitSizes ==
    /\ template = PlainTemplate
    /\ sheetnames = <<BreakdownTitle, RefinedTitle>>
    /\ rawSheet = <<>>
    /\ \E name \in SizeNames :
          refSheet = <<refined_header, <<Str(name), Str(TxLF), Num(6), Num(0)>>>>
    /\ brk = template.brk
    /\ csvIn = <<>>
    /\ data = <<>>
    /\ tokens = <<>>
    /\ lastOp = "init"
    /\ ductBase = brk
    /\ ductRuns = 0
    /\ refineRuns = 0

NextSizes == PopulatePiping

SpecSizes == InitSizes /\ [][NextSizes]_vars

----------------------------------------------------------------------------
(* process_csv_to_excel over files of many shapes: a first line of any     *)
(* width up to MaxWidth, with its fields present or empty, and the lines   *)
(* that follow it.                                                         *)

\* the widest first line
MaxWidth == 10

\* the most lines after the first
MaxFollow == 1

\* the field of a full line at position j, counted from 1
FieldAt(j) ==
    IF j \in {2, 4, 7, 8, 9} THEN <<"5">>
    ELSE IF j = 3 THEN TxLF
    ELSE TxNotApplicable

\* the Name fields: empty, the number 0, a text
NormNames == {<<>>, <<"0">>, NmThermostat}

FirstLines ==
    {[j \in 1..w |-> IF j = 1 THEN nm ELSE IF j \in gap THEN <<>> ELSE FieldAt(j)] :
        w \in 1..MaxWidth, nm \in NormNames, gap \in {{}, {2, 3}}}

\* the lines that may follow: a blank one, one with an empty Name, one with
\* Name 0, a full one, one of ten fields
FollowPool ==
    { <<>>,
      << <<>>, <<"5">>, TxLF >>,
      << <<"0">>, <<"7">> >>,
      Line(NmGalv6x6, <<"1", "0">>, TxLF, <<"0">>),
      [j \in 1..10 |-> FieldAt(j)] }

RECURSIVE FollowSeqs(_)
FollowSeqs(n) ==
    IF n = 0 THEN {<<>>}
    ELSE LET shorter == FollowSeqs(n - 1)
         IN  shorter \cup {Append(q, l) : q \in shorter, l \in FollowPool}

\* the files, the empty one among them
NormFiles == {<<>>} \cup {<<f>> \o q : f \in FirstLines, q \in FollowSeqs(MaxFollow)}

InitNorm ==
    /\ template \in Templates
    /\ sheetnames = template.sheetnames
    /\ rawSheet = template.rawSheet
    /\ refSheet = template.refSheet
    /\ brk = template.brk
    /\ csvIn = <<>>
    /\ data = <<>>
    /\ tokens = <<>>
    /\ lastOp = "init"
    /\ ductBase = brk
    /\ ductRuns = 0
    /\ refineRuns = 0

NextNorm == lastOp = "init" /\ \E lines \in NormFiles : ProcessCsv(lines)

SpecNorm == InitNorm /\ [][NextNorm]_vars

----------------------------------------------------------------------------
(* populate_piping over 'Refined values' sheets of any order: records of    *)
(* the three size-keyed categories with sizes the breakdown sheet has      *)
(* once, twice or not at all, a record without a size, and a refrigerant   *)
(* record.                                                                 *)

\* the most records of a refined sheet
MaxRecords == 3

Record(name, units, qty) == <<Str(name), Str(units), Num(qty), Num(0)>>

\* the records: two share name and size, one has no size in its name, one a
\* size (40") that some sheets lack
RecordPool ==
    { Record(NmCondensate34, TxLF, 8),
      Record(NmCondensate34, TxSF, 3),
      Record(SubSeq(NmCondensate34, 1, 16), TxLF, 5),
      Record(NmCopper34, TxLF, 4),
      Record(NmSch40Iron2, TxLF, 9),
      Record(NmRefrigerantPiping, TxLF, 12) }

\* the record lists of up to n records, no (Name, Units) pair twice
RECURSIVE RecordSeqs(_)
RecordSeqs(n) ==
    IF n = 0 THEN {<<>>}
    ELSE LET shorter == RecordSeqs(n - 1)
         IN  shorter \cup {Append(p[1], p[2]) :
                            p \in {v \in shorter \X RecordPool : v[2] \notin SeqToSet(v[1])}}

\* the breakdown sheets: those of the templates, and one whose refrigerant
\* label stands in a size row, right of the size
PipingSheets ==
    {t.brk : t \in Templates}
        \cup {SetCell(SetCell(PlainTemplate.brk, 3, 2, Str(TxInputRefrigerantPiping)),
                      3, 4, Num(100))}

InitPiping ==
    /\ template = PlainTemplate
    /\ sheetnames = <<BreakdownTitle, RefinedTitle>>
    /\ rawSheet = <<>>
    /\ \E q \in RecordSeqs(MaxRecords) : refSheet = <<refined_header>> \o q
    /\ brk \in PipingSheets
    /\ csvIn = <<>>
    /\ data = <<>>
    /\ tokens = <<>>
    /\ lastOp = "init"
    /\ ductBase = brk
    /\ ductRuns = 0
    /\ refineRuns = 0

\* the runs are those of populate_piping, as over the names of many shapes
SpecPiping == InitPiping /\ [][NextSizes]_vars

----------------------------------------------------------------------------
(* Properties *)

\* text of a cell of column A: str(value)
NameText(v) == IF v.t = "num" THEN DecimalText(v.n) ELSE v.s

\* g holds no cell that is 'INPUT AREA' once trimmed and upper-cased
NoMarker(g) ==
    \A r \in 1..MaxRow(g) : \A c \in 1..MaxColumn(g) :
        ~(Cell(g, r, c).t = "str" /\ Upper(Strip(Cell(g, r, c).s)) = TxInputArea)

\* the sum of column col of the refined rows ref over every entry of the
\* category table cats that is placed at label
RECURSIVE LabelSum(_, _, _, _, _)
LabelSum(ref, cats, k, label, col) ==
    IF k > Len(cats) THEN 0
    ELSE (IF cats[k][2] = label THEN Aggregate(ref, 2, cats[k][1], col) ELSE 0)
         + LabelSum(ref, cats, k + 1, label, col)

\* cell (r, c) of `now` is the number cell (r, c) of `base` held (0 when it
\* held none) plus add
CellGrew(base, now, r, c, add) ==
    Cell(now, r, c) = Num((IF Cell(base, r, c).t = "num" THEN Cell(base, r, c).n ELSE 0) + add)

\* in every row of `base` that holds label, the cell right of its first
\* occurrence has grown by add in `now`
LabelGrew(base, now, label, add) ==
    \A r \in 1..MaxRow(base) :
        LabelColumn(base, r, label, MaxColumn(base)) > 0 =>
            CellGrew(base, now, r, LabelColumn(base, r, label, MaxColumn(base)) + 1, add)

\* sheet `now` is sheet `base` after n placements of the table cats: right of
\* every label of cats that `base` holds stands the number that was there (0
\* when there was none) plus n times the sum placed at the label
Accumulated(base, now, ref, cats, col, n) ==
    \A label \in {cats[k][2] : k \in 1..Len(cats)} :
        LabelGrew(base, now, label, n * LabelSum(ref, cats, 1, label, col))

\* the refined rows whose name holds `marker`, case folded
RowsNaming(ref, marker) == {i \in 2..Len(ref) : NameHas(ref[i][1], marker)}

\* C1: after refine_values the refined table holds, for the (Name, Units) pair
\* of every canonical row, exactly one record, and the record's Total Qty and
\* Total Square feet are the sums of the coerced Qty and Square feet of the
\* canonical rows with that pair.  (Violated: a row whose Units cell is empty
\* has no record.)
C1_OneRecordPerKey ==
    lastOp = "refine" =>
        \A i \in 2..Len(rawSheet) :
            /\ Cardinality({k \in 2..Len(refSheet) :
                               /\ refSheet[k][1] = rawSheet[i][ColumnOf(rawSheet[1], TxName)]
                               /\ refSheet[k][2] = rawSheet[i][ColumnOf(rawSheet[1], TxUnits)]}) = 1
            /\ \A k \in 2..Len(refSheet) :
                  (/\ refSheet[k][1] = rawSheet[i][ColumnOf(rawSheet[1], TxName)]
                   /\ refSheet[k][2] = rawSheet[i][ColumnOf(rawSheet[1], TxUnits)])
                  => /\ refSheet[k][3] =
                          Num(GroupSum(Tail(rawSheet), ColumnOf(rawSheet[1], TxName),
                                       ColumnOf(rawSheet[1], TxUnits),
                                       <<refSheet[k][1], refSheet[k][2]>>,
                                       ColumnOf(rawSheet[1], TxQty)))
                     /\ refSheet[k][4] =
                          Num(GroupSum(Tail(rawSheet), ColumnOf(rawSheet[1], TxName),
                                       ColumnOf(rawSheet[1], TxUnits),
                                       <<refSheet[k][1], refSheet[k][2]>>,
                                       ColumnOf(rawSheet[1], TxSquareFeet)))

\* C2: after n >= 1 runs of populate_ductwork over the same refined table, the
\* cell right of every base category label of the breakdown sheet holds its
\* prior value (0 when that was no number) plus n times the sum of Total Qty
\* of the refined records whose name holds the category, case folded: one run
\* adds the sum, two runs add it twice.
C2_BaseAccumulation ==
    ductRuns >= 1 => Accumulated(ductBase, brk, refSheet, base_categories, 3, ductRuns)

\* two runs over a table whose Galvanized Steel records sum to 15, on a sheet
\* that held 100 right of the label: the cell holds 130
C2_Witness ==
    /\ lastOp = "ductwork"
    /\ ductRuns = 2
    /\ \E r \in 1..MaxRow(ductBase) :
          /\ LabelColumn(ductBase, r, LblGalvanizedSteel, MaxColumn(ductBase)) = 2
          /\ Cell(ductBase, r, 3) = Num(100)
          /\ Aggregate(refSheet, 2, CatGalvanizedSteel, 3) = 15
          /\ Cell(brk, r, 3) = Num(130)

\* C3: after n >= 1 runs of populate_ductwork over the same refined table, the
\* cell right of every combo label holds its prior value (0 when that was no
\* number) plus n times the sum, over all combos placed at that label, of
\* Total Square feet of the refined records whose name holds the combo: no
\* combo's sum replaces another's.
C3_ComboAccumulation ==
    ductRuns >= 1 => Accumulated(ductBase, brk, refSheet, sq_categories, 4, ductRuns)

\* one run over a table with two 'Acoustically Lined' combos of 20 and 30
\* square feet, on a sheet that held 100 right of the label: the cell holds 150
C3_Witness ==
    /\ lastOp = "ductwork"
    /\ ductRuns = 1
    /\ \E r \in 1..MaxRow(ductBase) :
          /\ LabelColumn(ductBase, r, LblAcousticalLining, MaxColumn(ductBase)) = 2
          /\ Cell(ductBase, r, 3) = Num(100)
          /\ Aggregate(refSheet, 2, PreAcousticallyLined \o CatGalvanizedSteel, 4) = 20
          /\ Aggregate(refSheet, 2, PreAcousticallyLined \o CatAluminum, 4) = 30
          /\ Cell(brk, r, 3) = Num(150)

\* C4: after a run of populate_piping that found the marker, when some refined
\* record's name holds 'refrigerant', case folded, the cell right of every
\* 'Input Refrigerant Piping' label holds the Total Qty of the first such
\* record, whatever it held before.
C4_RefrigerantOverwrite ==
    (lastOp = "piping" /\ RowsNaming(refSheet, TxRefrigerant) # {}) =>
        \A r \in 1..MaxRow(brk) :
            LabelColumn(brk, r, TxInputRefrigerantPiping, MaxColumn(brk)) > 0 =>
                Cell(brk, r, LabelColumn(brk, r, TxInputRefrigerantPiping, MaxColumn(brk)) + 1)
                    = refSheet[SetMin(RowsNaming(refSheet, TxRefrigerant))][3]

\* a template with the label at (5,2) and 100 at (5,3), a record
\* 'Refrigerant Piping' of Total Qty 12: (5,3) holds 12
C4_Witness ==
    /\ lastOp = "piping"
    /\ Cell(template.brk, 5, 2).t = "str"
    /\ Contains(TxInputRefrigerantPiping, Cell(template.brk, 5, 2).s)
    /\ Cell(template.brk, 5, 3) = Num(100)
    /\ \E i \in 2..Len(refSheet) :
          refSheet[i][1] = Str(NmRefrigerantPiping) /\ refSheet[i][3] = Num(12)
    /\ Cell(brk, 5, 3) = Num(12)

\* C5: the size token populate_piping takes from 'Condensate Drain 1-1/2"' is
\* 1-1/2", from 'Condensate Drain 3/4' it is 3/4", and from
\* 'SCH 40 Blk Iron 2' it is 2".  (Violated: the last one is 40".)
C5_SizeTokenExamples ==
    \A i \in 1..Len(tokens) :
        /\ tokens[i][1] = NmCondensate112 => tokens[i][2] = [found |-> TRUE, text |-> Tok112]
        /\ tokens[i][1] = NmCondensate34 => tokens[i][2] = [found |-> TRUE, text |-> Tok34]
        /\ tokens[i][1] = NmSch40Iron2 => tokens[i][2] = [found |-> TRUE, text |-> Tok2]

\* C6: every data row of the 'raw input' table process_csv_to_excel writes
\* has a Name that is the non-empty Name field of a line of the file.
\* (Violated: a line with an empty Name gives a row named '-'.)
C6_NoEmptyNameRows ==
    lastOp = "process" =>
        \A i \in 2..Len(rawSheet) :
            \E k \in 1..Len(csvIn) :
                /\ ~IsBlankLine(csvIn[k])
                /\ csvIn[k][1] # <<>>
                /\ NameText(rawSheet[i][1]) = csvIn[k][1]

\* C7: the pad/truncate step gives one record of exactly 9 fields per frame
\* row; at a position within the frame row, a missing value is 0 at positions
\* 1, 3, 6, 7, 8 (counted from 0) and '-' at the others, and a present value
\* is kept; a position beyond the frame row holds the empty string.
C7_PadTruncate ==
    lastOp = "process" =>
        /\ Len(data) = Len(ReadCsv(csvIn))
        /\ \A i \in 1..Len(data) :
              /\ Len(data[i]) = 9
              /\ \A j \in 1..9 :
                    IF j > Len(ReadCsv(csvIn)[i]) THEN data[i][j] = Str(<<>>)
                    ELSE IF ReadCsv(csvIn)[i][j].t \in {"none", "nan"}
                    THEN data[i][j] = (IF (j - 1) \in {1, 3, 6, 7, 8} THEN Num(0) ELSE Str(TxDash))
                    ELSE data[i][j] = ReadCsv(csvIn)[i][j]

\* a frame of fewer than 9 columns with a row that misses its Qty and its
\* Units and has values after them
C7_Witness ==
    /\ lastOp = "process"
    /\ \E i \in 1..Len(data) :
          /\ Len(ReadCsv(csvIn)[i]) \in 4..8
          /\ ReadCsv(csvIn)[i][2] = NaN
          /\ ReadCsv(csvIn)[i][3] = NaN
          /\ ReadCsv(csvIn)[i][4] = Num(5)
          /\ data[i][2] = Num(0)
          /\ data[i][3] = Str(TxDash)
          /\ data[i][9] = Str(<<>>)

\* C8: a run of refine_values right after a run of refine_values leaves the
\* 'Refined values' table as it was (rows, totals, order) and the sheets as
\* they were, one of them 'Refined values'.
C8_RefineIdempotent ==
    [][(lastOp = "refine" /\ lastOp' = "refine") =>
          /\ refSheet' = refSheet
          /\ sheetnames' = sheetnames
          /\ Cardinality({i \in 1..Len(sheetnames') : sheetnames'[i] = RefinedTitle}) = 1]_vars

\* two runs in a row, the first on a document without a 'Refined values'
\* sheet, the second on one with it, over a table of two records or more
C8_Witness ==
    /\ lastOp = "refine"
    /\ refineRuns = 2
    /\ RefinedTitle \notin SeqToSet(template.sheetnames)
    /\ Len(refSheet) >= 3

\* C9: on a breakdown sheet without the marker a run of populate_piping
\* aborts and leaves the document as it was, and a run of populate_ductwork
\* after it still adds every base category sum and every combo sum.
C9_NoMarkerAbort ==
    [][/\ (lastOp' \in {"piping", "piping_err"} /\ NoMarker(brk)) =>
              (lastOp' = "piping_err" /\ doc' = doc)
       /\ (lastOp = "piping_err" /\ lastOp' = "ductwork" /\ NoMarker(brk)) =>
              /\ Accumulated(brk, brk', refSheet, base_categories, 3, 1)
              /\ Accumulated(brk, brk', refSheet, sq_categories, 4, 1)]_vars

\* populate_piping has aborted on a document without the marker that has both
\* sheets, a refrigerant record and a condensate drain record
C9_Witness ==
    /\ lastOp = "piping_err"
    /\ NoMarker(brk)
    /\ RefinedTitle \in SeqToSet(sheetnames)
    /\ RowsNaming(refSheet, TxRefrigerant) # {}
    /\ RowsNaming(refSheet, TxCondensateDrain) # {}

\* C10: a run of refine_values on a document without a 'raw input' sheet, or
\* whose 'raw input' header lacks Name, Qty, Units or Square feet, aborts and
\* leaves the document as it was: no 'Refined values' sheet is created, and
\* one that was there stays as it was.
C10_RefineAborts ==
    [][(/\ lastOp' \in {"refine", "refine_err"}
        /\ \/ RawTitle \notin SeqToSet(sheetnames)
           \/ \E k \in 1..Len(required_columns) :
                 Str(required_columns[k]) \notin SeqToSet(rawSheet[1]))
       => (lastOp' = "refine_err" /\ doc' = doc)]_vars

\* refine_values has aborted on a document whose 'raw input' header lacks a
\* required column and that holds the 'Refined values' of an earlier run
C10_Witness ==
    /\ lastOp = "refine_err"
    /\ RawTitle \in SeqToSet(sheetnames)
    /\ rawSheet # <<>>
    /\ refSheet = StaleRefined
    /\ RefinedTitle \in SeqToSet(sheetnames)

\* the row the size index has for the text tok: the last row of g whose cell
\* in column iac is a text that is tok once trimmed (0: none)
IndexRow(g, iac, tok) ==
    LET rows == {r \in 1..MaxRow(g) :
                    Cell(g, r, iac).t = "str" /\ Strip(Cell(g, r, iac).s) = tok}
    IN  IF rows = {} THEN 0 ELSE SetMax(rows)

\* the refined rows of the category `marker` whose size token the index of g
\* maps to row r
RowsSized(g, iac, ref, marker, r) ==
    {i \in 2..Len(ref) :
        /\ NameHas(ref[i][1], marker)
        /\ SizeToken(ref[i][1].s).found
        /\ IndexRow(g, iac, SizeToken(ref[i][1].s).text) = r}

\* the size-keyed categories and their offsets from the marker's column
SizeRules == {<<TxCondensateDrain, 1>>, <<TxCopper, 2>>, <<TxSch40, 3>>}

\* cell (r, c) of g is right of a cell of g that holds the refrigerant label
RightOfRefrigerantLabel(g, r, c) ==
    /\ c >= 2
    /\ Cell(g, r, c - 1).t = "str"
    /\ Contains(TxInputRefrigerantPiping, Cell(g, r, c - 1).s)

\* what a run of populate_piping that found the marker in column iac of `old`
\* leaves in `new`: at every row of the size index and every category, the
\* Total Qty of the last record of the category sized to the row; every other
\* cell as it was, but for the cells right of a refrigerant label
SizeKeyedPlaced(old, new, iac, ref) ==
    /\ \A rule \in SizeRules : \A r \in 1..MaxRow(old) :
          RowsSized(old, iac, ref, rule[1], r) # {} =>
              Cell(new, r, iac + rule[2])
                  = ref[SetMax(RowsSized(old, iac, ref, rule[1], r))][3]
    /\ \A r \in 1..MaxRow(new) : \A c \in 1..MaxColumn(new) :
          Cell(new, r, c) # Cell(old, r, c) =>
              \/ RightOfRefrigerantLabel(old, r, c)
              \/ \E rule \in SizeRules :
                    c = iac + rule[2] /\ RowsSized(old, iac, ref, rule[1], r) # {}

\* C11: a run of populate_piping on a document with both sheets and the
\* marker does not abort, and for each of condensate drain (offset 1), copper
\* riser and branch (offset 2) and SCH 40 (offset 3) it leaves at every row r
\* of the size index, in the cell at the marker's column plus the offset, the
\* Total Qty of the last refined record of the category whose size token the
\* index maps to r, the index mapping a token to the last row that holds it;
\* a record without a token, or with a token the index lacks, changes no cell.
C11_SizeKeyedLookup ==
    [][(lastOp' \in {"piping", "piping_err"} /\ ~MapperSheetMissing /\ ~NoMarker(brk)) =>
          /\ lastOp' = "piping"
          /\ SizeKeyedPlaced(brk, brk', InputAreaColumn(brk), refSheet)]_vars

\* a sheet with 3/4" in rows 2 and 4 under the marker, and two condensate
\* drain records of size 3/4 after one without a size: (4,2) holds the Total
\* Qty of the second, (2,2) is empty
C11_Witness ==
    /\ lastOp = "piping"
    /\ Cell(brk, 2, 1) = Str(Tok34)
    /\ Cell(brk, 4, 1) = Str(Tok34)
    /\ Len(refSheet) = 4
    /\ refSheet[2] = Record(SubSeq(NmCondensate34, 1, 16), TxLF, 5)
    /\ refSheet[3] = Record(NmCondensate34, TxLF, 8)
    /\ refSheet[4] = Record(NmCondensate34, TxSF, 3)
    /\ Cell(brk, 4, 2) = Num(3)
    /\ Cell(brk, 2, 2) = None

\* the labels populate_ductwork places totals at
DuctLabels ==
    {base_categories[k][2] : k \in 1..Len(base_categories)}
        \cup {sq_categories[k][2] : k \in 1..Len(sq_categories)}

\* cell (r, c) of g is right of a cell of g that holds one of labels
RightOfLabel(g, r, c, labels) ==
    /\ c >= 2
    /\ Cell(g, r, c - 1).t = "str"
    /\ \E label \in labels : Contains(label, Cell(g, r, c - 1).s)

\* cell (r, c) of g is in a row of the size index, one to three columns right
\* of the marker's column iac
AtSizeRow(g, iac, r, c) ==
    /\ iac > 0
    /\ c \in (iac + 1)..(iac + 3)
    /\ Cell(g, r, iac).t = "str"
    /\ IndexRow(g, iac, Strip(Cell(g, r, iac).s)) = r

\* every cell of `new` that differs from the cell of `old` is a target of the
\* rules of populate_piping on `old`
OnlyPipingTargets(old, new) ==
    \A r \in 1..MaxRow(new) : \A c \in 1..MaxColumn(new) :
        Cell(new, r, c) # Cell(old, r, c) =>
            \/ RightOfLabel(old, r, c, {TxInputRefrigerantPiping})
            \/ AtSizeRow(old, InputAreaColumn(old), r, c)

\* every cell of `new` that differs from the cell of `old` is a target of the
\* rules of populate_ductwork on `old`
OnlyDuctworkTargets(old, new) ==
    \A r \in 1..MaxRow(new) : \A c \in 1..MaxColumn(new) :
        Cell(new, r, c) # Cell(old, r, c) => RightOfLabel(old, r, c, DuctLabels)

\* C12: a run of populate_piping or populate_ductwork leaves the 'Refined
\* values' sheet as it was, and in the breakdown sheet changes only targets of
\* its rules: the cell right of a cell that holds a label of the run, and, for
\* populate_piping, the cells one to three columns right of the marker's
\* column in a row of the size index; every other cell keeps its value.
C12_MapperFrame ==
    [][/\ lastOp' \in {"piping", "piping_err"} =>
              (refSheet' = refSheet /\ OnlyPipingTargets(brk, brk'))
       /\ lastOp' \in {"ductwork", "ductwork_err"} =>
              (refSheet' = refSheet /\ OnlyDuctworkTargets(brk, brk'))]_vars

\* populate_ductwork has run after populate_piping on the plain template and
\* the records of two refrigerant lines and a 1-1/2" condensate drain line:
\* (5,3), (3,2) and (6,3) hold what the rules put there (7, 6 and 0), the
\* labels, the sizes and the other cells what the template holds
C12_Witness ==
    /\ lastOp = "ductwork"
    /\ template = PlainTemplate
    /\ tokens # <<>>
    /\ Cell(brk, 5, 3) = Num(7)
    /\ Cell(brk, 3, 2) = Num(6)
    /\ Cell(brk, 6, 3) = Num(0)
    /\ \A r \in 1..BrkRows : \A c \in {1, 2, 4} :
          <<r, c>> # <<3, 2>> => Cell(brk, r, c) = Cell(template.brk, r, c)

====
